---- MODULE Spec2Model ----
(***************************************************************************)
(* Model of analyze.py: HiddenFolderCrawler, a pool of worker threads that *)
(* pull candidate paths from a queue.Queue, resolve them with urljoin,     *)
(* deduplicate them under a lock, probe them with a HEAD request and       *)
(* record the ones answering 200.                                          *)
(*                                                                         *)
(* Strings that are paths are modelled as the sequence str.split('/')      *)
(* yields: "a" is <<"a">>, "a/" is <<"a", "">>, "/x/" is <<"", "x", "">>.  *)
(* Splitting on '/' is a bijection between strings and non-empty sequences *)
(* of slash-free segments, so appending "/" is Append(w, "").  A resolved  *)
(* address is the path of the URL; scheme and host are those of the base   *)
(* (http://example.com) and are left implicit.                             *)
(***************************************************************************)
EXTENDS Integers, Sequences, FiniteSets, TLC

\* ---------------------------------------------------------------- bounds
MaxThreads == 3
MaxLines == 2

\* ------------------------------------------------------------ input sets
\* the wordlists crawled: ["admin"], ["."], ["a", "a/"]
Wordlists == { << <<"admin">> >>, << <<".">> >>, << <<"a">>, <<"a", "">> >> }

\* "http://example.com" and "http://example.com/x/"
BaseUrls == { <<"">>, <<"", "x", "">> }

\* self.output_file: none ("" stands for None, both are falsy) or a path
OutputFiles == { "", "results.txt" }

\* the output file does not exist
Absent == <<>>

\* lines of the output file, as str.split('/') of the line: the header
\* "Found directories:" and the empty line; an address line is the address
HeaderLine == <<"Found directories:">>
EmptyLine == <<"">>

\* args.wordlist is None: no -w option
NoWordlistFile == [given |-> FALSE, readable |-> FALSE, lines |-> <<>>]

\* main()'s local wordlist while it is None
NoList == [none |-> TRUE, list |-> <<>>]

Workers == 1..MaxThreads

\* the termination marker put on the queue (None); no candidate is empty
None == <<>>

\* check_url's "unreachable" return value (None), distinct from every code
Unreachable == -1

\* ---------------------------------------------------------------- urljoin
NonEmptySeg(s) == s # ""

\* FilterMiddle keeping the empty segments (no filter(None, ...))
FilterMiddle_Keep(segments) == segments

\* segments[1:-1] = filter(None, segments[1:-1])
FilterMiddle(segments) ==
    IF Len(segments) <= 2 THEN segments
    ELSE <<segments[1]>>
         \o SelectSeq(SubSeq(segments, 2, Len(segments) - 1), NonEmptySeg)
         \o <<segments[Len(segments)]>>

\* the for-loop over segments building resolved_path
RECURSIVE ResolveDots(_, _)
ResolveDots(segments, resolved_path) ==
    IF segments = <<>> THEN resolved_path
    ELSE LET seg == Head(segments) IN
         IF seg = ".." THEN
             ResolveDots(Tail(segments),
                         IF resolved_path = <<>> THEN <<>>
                         ELSE SubSeq(resolved_path, 1, Len(resolved_path) - 1))
         ELSE IF seg = "." THEN ResolveDots(Tail(segments), resolved_path)
         ELSE ResolveDots(Tail(segments), Append(resolved_path, seg))

\* '/'.join(resolved_path) or '/', and urlunparse's leading '/' after a netloc
UnparsePath(resolved_path) ==
    IF resolved_path = <<>> \/ resolved_path = <<"">> THEN <<"", "">>
    ELSE IF resolved_path[1] # "" THEN <<"">> \o resolved_path
    ELSE resolved_path

urljoin(base, url) ==
    IF url = <<"">> THEN base
    ELSE LET base_parts == IF base[Len(base)] # ""
                           THEN SubSeq(base, 1, Len(base) - 1)
                           ELSE base
             segments == IF Len(url) >= 2 /\ url[1] = ""
                         THEN url
                         ELSE FilterMiddle(base_parts \o url)
             resolved == ResolveDots(segments, <<>>)
             resolved_path == IF segments[Len(segments)] \in {".", ".."}
                              THEN Append(resolved, "")
                              ELSE resolved
         IN UnparsePath(resolved_path)

\* the items crawl() puts on the queue: word, then f"{word}/", per word
RECURSIVE Expand(_)
Expand(wl) ==
    IF wl = <<>> THEN <<>>
    ELSE <<Head(wl), Append(Head(wl), "")>> \o Expand(Tail(wl))

Range(s) == { s[i] : i \in 1..Len(s) }

\* every resolved address the crawl of (base, wl) can hand to check_url
Resolved(base, wl) == { urljoin(base, c) : c \in Range(Expand(wl)) }

\* ------------------------------------------------------------- check_url
\* what the HEAD exchange does: a 2xx response, an HTTPError carrying the
\* status code, a URLError (refused connection, DNS failure), or an exception
\* that is no URLError (http.client.RemoteDisconnected, http.client.InvalidURL,
\* ValueError)
Exchanges ==
    { [kind |-> "response", code |-> 200],
      [kind |-> "HTTPError", code |-> 404],
      [kind |-> "URLError", code |-> 0],
      [kind |-> "HTTPException", code |-> 0] }

NoExchange == [kind |-> "none", code |-> 0]

check_url(ex) ==
    IF ex.kind = "response" THEN [raised |-> FALSE, value |-> ex.code]
    ELSE IF ex.kind = "HTTPError" THEN [raised |-> FALSE, value |-> ex.code]
    ELSE IF ex.kind = "URLError" THEN [raised |-> FALSE, value |-> Unreachable]
    ELSE [raised |-> TRUE, value |-> Unreachable]

\* ------------------------------------------------------------------ state
VARIABLES
    base_url,          \* self.base_url (its path)
    wordlist,          \* self.wordlist
    max_threads,       \* self.max_threads
    queue,             \* self.queue: the items not yet dequeued, FIFO
    unfinished_tasks,  \* self.queue.unfinished_tasks: put() minus task_done()
    found_dirs,        \* self.found_dirs
    checked_urls,      \* self.checked_urls
    lock,              \* self.lock: 0 when free, else the worker holding it
    cpc,               \* where crawl() is
    ci,                \* crawl()'s loop index
    wpc,               \* where each worker thread is
    path,              \* worker local: the item dequeued last
    full_url,          \* worker local: urljoin(self.base_url, path)
    probes,            \* history: calls of check_url per resolved address
    outcome,           \* history: the exchange each probed address met
    dup,               \* history: addresses some worker skipped as duplicate
    markers,           \* history: termination markers each worker dequeued
    gets,              \* history: items dequeued so far by all workers
    taken,             \* history: the dequeue number of the candidate each
                       \*          worker holds, 0 when it holds none
    found_by,          \* history: who appended found_dirs[i], as <<worker,
                       \*          dequeue number of the candidate>>
    output_file,       \* self.output_file: "" when none is configured
    out_file,          \* the lines of the file at output_file, <<>> if absent
    report,            \* what save_results printed: "none", "saved", "error"
    argv_url,          \* main(): args.url, a sequence of characters
    wordlist_file,     \* main(): the lines of the file at args.wordlist
    main_wordlist,     \* main(): its local wordlist
    base_url_text,     \* self.base_url as a sequence of characters
    mpc                \* where main() is

vars == <<base_url, wordlist, max_threads, queue, unfinished_tasks,
          found_dirs, checked_urls, lock, cpc, ci, wpc, path, full_url,
          probes, outcome, dup, markers, gets, taken, found_by,
          output_file, out_file, report,
          argv_url, wordlist_file, main_wordlist, base_url_text, mpc>>

config == <<base_url, wordlist, max_threads, output_file>>
output == <<out_file, report>>
cli == <<argv_url, wordlist_file, main_wordlist, base_url_text, mpc>>
shared == <<found_dirs, checked_urls>>
locals == <<path, full_url>>
history == <<probes, outcome, dup, markers>>
order == <<gets, taken, found_by>>

\* __init__ followed by the entry of crawl()
Init ==
    /\ base_url \in BaseUrls
    /\ wordlist \in Wordlists
    /\ max_threads \in 0..MaxThreads
    /\ queue = <<>>
    /\ unfinished_tasks = 0
    /\ found_dirs = <<>>
    /\ checked_urls = {}
    /\ lock = 0
    /\ cpc = "put"
    /\ ci = 1
    /\ wpc = [w \in Workers |-> "unstarted"]
    /\ path = [w \in Workers |-> None]
    /\ full_url = [w \in Workers |-> <<>>]
    /\ probes = [u \in Resolved(base_url, wordlist) |-> 0]
    /\ outcome = [u \in Resolved(base_url, wordlist) |-> NoExchange]
    /\ dup = {}
    /\ markers = [w \in Workers |-> 0]
    /\ gets = 0
    /\ taken = [w \in Workers |-> 0]
    /\ found_by = <<>>
    /\ output_file \in OutputFiles
    /\ out_file = Absent
    /\ report = "none"
    /\ argv_url = <<>>
    /\ wordlist_file = NoWordlistFile
    /\ main_wordlist = NoList
    /\ base_url_text = <<>>
    /\ mpc = "crawl"

\* CoordPut without the trailing-slash variant
CoordPut_NoSlash ==
    /\ cpc = "put"
    /\ ci <= Len(wordlist)
    /\ queue' = Append(queue, wordlist[ci])
    /\ unfinished_tasks' = unfinished_tasks + 1
    /\ ci' = ci + 1
    /\ UNCHANGED <<config, output, cli, order, shared, lock, cpc, wpc, locals,
                   history>>

\* ------------------------------------------------------------ coordinator
\* one iteration of "for word in self.wordlist": put(word); put(f"{word}/")
CoordPut ==
    /\ cpc = "put"
    /\ ci <= Len(wordlist)
    /\ queue' = queue \o <<wordlist[ci], Append(wordlist[ci], "")>>
    /\ unfinished_tasks' = unfinished_tasks + 2
    /\ ci' = ci + 1
    /\ UNCHANGED <<config, output, cli, order, shared, lock, cpc, wpc, locals,
                   history>>

CoordPutDone ==
    /\ cpc = "put"
    /\ ci > Len(wordlist)
    /\ cpc' = "start"
    /\ ci' = 1
    /\ UNCHANGED <<config, output, cli, order, queue, unfinished_tasks,
                   shared, lock, wpc, locals, history>>

\* one iteration of "for _ in range(self.max_threads)": Thread(...).start()
CoordStart ==
    /\ cpc = "start"
    /\ ci <= max_threads
    /\ wpc' = [wpc EXCEPT ![ci] = "get"]
    /\ ci' = ci + 1
    /\ UNCHANGED <<config, output, cli, order, queue, unfinished_tasks,
                   shared, lock, cpc, locals, history>>

CoordStartDone ==
    /\ cpc = "start"
    /\ ci > max_threads
    /\ cpc' = "queue_join"
    /\ UNCHANGED <<config, output, cli, order, queue, unfinished_tasks,
                   shared, lock, ci, wpc, locals, history>>

\* CoordQueueJoin without the wait for unfinished_tasks to reach zero
CoordQueueJoin_NoWait ==
    /\ cpc = "queue_join"
    /\ cpc' = "stop"
    /\ ci' = 1
    /\ UNCHANGED <<config, output, cli, order, queue, unfinished_tasks,
                   shared, lock, wpc, locals, history>>

\* self.queue.join(): returns once unfinished_tasks is zero
CoordQueueJoin ==
    /\ cpc = "queue_join"
    /\ unfinished_tasks = 0
    /\ cpc' = "stop"
    /\ ci' = 1
    /\ UNCHANGED <<config, output, cli, order, queue, unfinished_tasks,
                   shared, lock, wpc, locals, history>>

\* one iteration of "for _ in range(self.max_threads)": self.queue.put(None)
CoordStop ==
    /\ cpc = "stop"
    /\ ci <= max_threads
    /\ queue' = Append(queue, None)
    /\ unfinished_tasks' = unfinished_tasks + 1
    /\ ci' = ci + 1
    /\ UNCHANGED <<config, output, cli, order, shared, lock, cpc, wpc, locals,
                   history>>

CoordStopDone ==
    /\ cpc = "stop"
    /\ ci > max_threads
    /\ cpc' = "thread_join"
    /\ ci' = 1
    /\ UNCHANGED <<config, output, cli, order, queue, unfinished_tasks,
                   shared, lock, wpc, locals, history>>

\* CoordThreadJoin without the wait for the thread to end
CoordThreadJoin_NoWait ==
    /\ cpc = "thread_join"
    /\ ci <= max_threads
    /\ ci' = ci + 1
    /\ UNCHANGED <<config, output, cli, order, queue, unfinished_tasks,
                   shared, lock, cpc, wpc, locals, history>>

\* one iteration of "for t in threads": t.join() returns once thread ci ended
CoordThreadJoin ==
    /\ cpc = "thread_join"
    /\ ci <= max_threads
    /\ wpc[ci] \in {"exited", "crashed"}
    /\ ci' = ci + 1
    /\ UNCHANGED <<config, output, cli, order, queue, unfinished_tasks,
                   shared, lock, cpc, wpc, locals, history>>

\* the threads are joined: crawl() goes on to "# Print summary"
CoordSummary ==
    /\ cpc = "thread_join"
    /\ ci > max_threads
    /\ cpc' = "summary"
    /\ UNCHANGED <<config, output, cli, order, queue, unfinished_tasks,
                   shared, lock, ci, wpc, locals, history>>

\* "if self.found_dirs:" is true: the addresses are listed and save_results
\* is called
CoordListFound ==
    /\ cpc = "summary"
    /\ found_dirs # <<>>
    /\ cpc' = "save"
    /\ UNCHANGED <<config, output, cli, order, queue, unfinished_tasks,
                   shared, lock, ci, wpc, locals, history>>

\* "if self.found_dirs:" is false: "[-] No directories found" is printed and
\* crawl() returns
CoordReturn ==
    /\ cpc = "summary"
    /\ found_dirs = <<>>
    /\ cpc' = "done"
    /\ UNCHANGED <<config, output, cli, order, queue, unfinished_tasks,
                   shared, lock, ci, wpc, locals, history>>

\* the text "Found directories:\n" + "\n".join(found), as its lines
FileLines(found) ==
    <<HeaderLine>> \o (IF found = <<>> THEN <<EmptyLine>> ELSE found)

\* save_results(), after which crawl() returns: nothing without an output
\* file; else open(..., 'w') either succeeds and the two writes follow, or
\* raises IOError, which is reported
CoordSave ==
    /\ cpc = "save"
    /\ cpc' = "done"
    /\ IF output_file = ""
       THEN UNCHANGED output
       ELSE \/ /\ out_file' = FileLines(found_dirs)
               /\ report' = "saved"
            \/ /\ report' = "error"
               /\ UNCHANGED out_file
    /\ UNCHANGED <<config, cli, order, queue, unfinished_tasks, shared, lock,
                   ci, wpc, locals, history>>

\* ----------------------------------------------------------------- worker
\* path = self.queue.get() (blocks while the queue is empty), the test for
\* the sentinel, and full_url = urljoin(self.base_url, path)
WorkerGet(w) ==
    /\ wpc[w] = "get"
    /\ queue # <<>>
    /\ queue' = Tail(queue)
    /\ path' = [path EXCEPT ![w] = Head(queue)]
    /\ gets' = gets + 1
    /\ IF Head(queue) = None
       THEN /\ wpc' = [wpc EXCEPT ![w] = "sentinel"]
            /\ markers' = [markers EXCEPT ![w] = @ + 1]
            /\ UNCHANGED <<full_url, taken>>
       ELSE /\ wpc' = [wpc EXCEPT ![w] = "lock_check"]
            /\ full_url' = [full_url EXCEPT ![w] = urljoin(base_url, Head(queue))]
            /\ taken' = [taken EXCEPT ![w] = gets + 1]
            /\ UNCHANGED markers
    /\ UNCHANGED found_by
    /\ UNCHANGED <<config, output, cli, unfinished_tasks, shared, lock,
                   cpc, ci, probes, outcome, dup>>

\* WorkerSentinel without the break: the worker goes on dequeuing
WorkerSentinel_NoBreak(w) ==
    /\ wpc[w] = "sentinel"
    /\ unfinished_tasks' = unfinished_tasks - 1
    /\ wpc' = [wpc EXCEPT ![w] = "get"]
    /\ UNCHANGED <<config, output, cli, order, queue, shared, lock, cpc, ci,
                   locals, history>>

\* the sentinel branch: self.queue.task_done(); break
WorkerSentinel(w) ==
    /\ wpc[w] = "sentinel"
    /\ unfinished_tasks' = unfinished_tasks - 1
    /\ wpc' = [wpc EXCEPT ![w] = "exited"]
    /\ UNCHANGED <<config, output, cli, order, queue, shared, lock, cpc, ci,
                   locals, history>>

\* WorkerLockCheck without mutual exclusion: the with statement does not wait
WorkerLockCheck_NoWait(w) ==
    /\ wpc[w] = "lock_check"
    /\ lock' = w
    /\ wpc' = [wpc EXCEPT ![w] = "check"]
    /\ UNCHANGED <<config, output, cli, order, queue, unfinished_tasks,
                   shared, cpc, ci, locals, history>>

\* entering the first "with self.lock:": blocks while the lock is held
WorkerLockCheck(w) ==
    /\ wpc[w] = "lock_check"
    /\ lock = 0
    /\ lock' = w
    /\ wpc' = [wpc EXCEPT ![w] = "check"]
    /\ UNCHANGED <<config, output, cli, order, queue, unfinished_tasks,
                   shared, cpc, ci, locals, history>>

\* "if full_url in self.checked_urls", evaluated inside the with block
WorkerCheck(w) ==
    /\ wpc[w] = "check"
    /\ wpc' = [wpc EXCEPT ![w] =
                  IF full_url[w] \in checked_urls THEN "skip" ELSE "add"]
    /\ UNCHANGED <<config, output, cli, order, queue, unfinished_tasks,
                   shared, lock, cpc, ci, locals, history>>

\* WorkerSkip without the continue: the duplicate falls through to the delay
\* and the task_done at the end of the loop
WorkerSkip_Delay(w) ==
    /\ wpc[w] = "skip"
    /\ dup' = dup \cup {full_url[w]}
    /\ lock' = 0
    /\ wpc' = [wpc EXCEPT ![w] = "sleep"]
    /\ UNCHANGED <<config, output, cli, order, queue, unfinished_tasks,
                   shared, cpc, ci, locals, probes, outcome, markers>>

\* the duplicate branch: self.queue.task_done(); continue, which leaves the
\* with block and releases the lock
WorkerSkip(w) ==
    /\ wpc[w] = "skip"
    /\ unfinished_tasks' = unfinished_tasks - 1
    /\ dup' = dup \cup {full_url[w]}
    /\ lock' = 0
    /\ wpc' = [wpc EXCEPT ![w] = "get"]
    /\ taken' = [taken EXCEPT ![w] = 0]
    /\ UNCHANGED <<gets, found_by>>
    /\ UNCHANGED <<config, output, cli, queue, shared, cpc, ci, locals,
                   probes, outcome, markers>>

\* WorkerAdd rebinding the ledger to the one address (= in place of add)
WorkerAdd_Replace(w) ==
    /\ wpc[w] = "add"
    /\ checked_urls' = {full_url[w]}
    /\ lock' = 0
    /\ wpc' = [wpc EXCEPT ![w] = "probe"]
    /\ UNCHANGED <<config, output, cli, order, queue, unfinished_tasks,
                   found_dirs, cpc, ci, locals, history>>

\* WorkerAdd keeping the lock: the probe is made inside the with block
WorkerAdd_KeepLock(w) ==
    /\ wpc[w] = "add"
    /\ checked_urls' = checked_urls \cup {full_url[w]}
    /\ wpc' = [wpc EXCEPT ![w] = "probe"]
    /\ UNCHANGED <<config, output, cli, order, queue, unfinished_tasks,
                   found_dirs, lock, cpc, ci, locals, history>>

\* self.checked_urls.add(full_url) and the release at the end of the with block
WorkerAdd(w) ==
    /\ wpc[w] = "add"
    /\ checked_urls' = checked_urls \cup {full_url[w]}
    /\ lock' = 0
    /\ wpc' = [wpc EXCEPT ![w] = "probe"]
    /\ UNCHANGED <<config, output, cli, order, queue, unfinished_tasks,
                   found_dirs, cpc, ci, locals, history>>

\* WorkerProbe with task_done called right after check_url returns, before
\* the recording and the sleep
WorkerProbe_EarlyDone(w) ==
    /\ wpc[w] = "probe"
    /\ \E ex \in Exchanges :
         /\ outcome' = [outcome EXCEPT ![full_url[w]] = ex]
         /\ wpc' = [wpc EXCEPT ![w] =
                       IF check_url(ex).raised THEN "crashed"
                       ELSE IF check_url(ex).value = 200 THEN "lock_append"
                       ELSE "sleep"]
    /\ probes' = [probes EXCEPT ![full_url[w]] = @ + 1]
    /\ unfinished_tasks' = unfinished_tasks - 1
    /\ UNCHANGED <<config, output, cli, order, queue, shared, lock, cpc, ci,
                   path, full_url, dup, markers>>

\* WorkerProbe with "if status:" in place of "if status == 200:"
WorkerProbe_AnyStatus(w) ==
    /\ wpc[w] = "probe"
    /\ \E ex \in Exchanges :
         /\ outcome' = [outcome EXCEPT ![full_url[w]] = ex]
         /\ wpc' = [wpc EXCEPT ![w] =
                       IF check_url(ex).raised THEN "crashed"
                       ELSE IF check_url(ex).value # Unreachable
                            THEN "lock_append"
                       ELSE "sleep"]
    /\ probes' = [probes EXCEPT ![full_url[w]] = @ + 1]
    /\ UNCHANGED <<config, output, cli, order, queue, unfinished_tasks,
                   shared, lock, cpc, ci, path, full_url, dup, markers>>

\* status = self.check_url(full_url) and the test "status == 200", the only
\* use of status; an exception check_url lets through ends the thread
WorkerProbe(w) ==
    /\ wpc[w] = "probe"
    /\ \E ex \in Exchanges :
         /\ outcome' = [outcome EXCEPT ![full_url[w]] = ex]
         /\ wpc' = [wpc EXCEPT ![w] =
                       IF check_url(ex).raised THEN "crashed"
                       ELSE IF check_url(ex).value = 200 THEN "lock_append"
                       ELSE "sleep"]
    /\ probes' = [probes EXCEPT ![full_url[w]] = @ + 1]
    /\ UNCHANGED <<config, output, cli, order, queue, unfinished_tasks,
                   shared, lock, cpc, ci, path, full_url, dup, markers>>

\* entering the second "with self.lock:"
WorkerLockAppend(w) ==
    /\ wpc[w] = "lock_append"
    /\ lock = 0
    /\ lock' = w
    /\ wpc' = [wpc EXCEPT ![w] = "append"]
    /\ UNCHANGED <<config, output, cli, order, queue, unfinished_tasks,
                   shared, cpc, ci, locals, history>>

\* WorkerAppend inserting at the front: found_dirs.insert(0, full_url)
WorkerAppend_Front(w) ==
    /\ wpc[w] = "append"
    /\ found_dirs' = <<full_url[w]>> \o found_dirs
    /\ found_by' = << <<w, taken[w]>> >> \o found_by
    /\ UNCHANGED <<gets, taken>>
    /\ lock' = 0
    /\ wpc' = [wpc EXCEPT ![w] = "sleep"]
    /\ UNCHANGED <<config, output, cli, queue, unfinished_tasks,
                   checked_urls, cpc, ci, locals, history>>

\* WorkerAppend recording the candidate in place of the resolved address
WorkerAppend_Path(w) ==
    /\ wpc[w] = "append"
    /\ found_dirs' = Append(found_dirs, path[w])
    /\ found_by' = Append(found_by, <<w, taken[w]>>)
    /\ UNCHANGED <<gets, taken>>
    /\ lock' = 0
    /\ wpc' = [wpc EXCEPT ![w] = "sleep"]
    /\ UNCHANGED <<config, output, cli, queue, unfinished_tasks,
                   checked_urls, cpc, ci, locals, history>>

\* self.found_dirs.append(full_url), the release, and the "[+] Found" line
WorkerAppend(w) ==
    /\ wpc[w] = "append"
    /\ found_dirs' = Append(found_dirs, full_url[w])
    /\ found_by' = Append(found_by, <<w, taken[w]>>)
    /\ UNCHANGED <<gets, taken>>
    /\ lock' = 0
    /\ wpc' = [wpc EXCEPT ![w] = "sleep"]
    /\ UNCHANGED <<config, output, cli, queue, unfinished_tasks,
                   checked_urls, cpc, ci, locals, history>>

\* time.sleep(self.delay)
WorkerSleep(w) ==
    /\ wpc[w] = "sleep"
    /\ wpc' = [wpc EXCEPT ![w] = "task_done"]
    /\ UNCHANGED <<config, output, cli, order, queue, unfinished_tasks,
                   shared, lock, cpc, ci, locals, history>>

\* WorkerTaskDone calling task_done a second time
WorkerTaskDone_Twice(w) ==
    /\ wpc[w] = "task_done"
    /\ unfinished_tasks' = unfinished_tasks - 2
    /\ wpc' = [wpc EXCEPT ![w] = "get"]
    /\ taken' = [taken EXCEPT ![w] = 0]
    /\ UNCHANGED <<gets, found_by>>
    /\ UNCHANGED <<config, output, cli, queue, shared, lock, cpc, ci,
                   locals, history>>

\* the loop's last statement: self.queue.task_done()
WorkerTaskDone(w) ==
    /\ wpc[w] = "task_done"
    /\ unfinished_tasks' = unfinished_tasks - 1
    /\ wpc' = [wpc EXCEPT ![w] = "get"]
    /\ taken' = [taken EXCEPT ![w] = 0]
    /\ UNCHANGED <<gets, found_by>>
    /\ UNCHANGED <<config, output, cli, queue, shared, lock, cpc, ci,
                   locals, history>>

worker(w) ==
    \/ WorkerGet(w)
    \/ WorkerSentinel(w)
    \/ WorkerLockCheck(w)
    \/ WorkerCheck(w)
    \/ WorkerSkip(w)
    \/ WorkerAdd(w)
    \/ WorkerProbe(w)
    \/ WorkerLockAppend(w)
    \/ WorkerAppend(w)
    \/ WorkerSleep(w)
    \/ WorkerTaskDone(w)

crawl ==
    \/ CoordPut
    \/ CoordPutDone
    \/ CoordStart
    \/ CoordStartDone
    \/ CoordQueueJoin
    \/ CoordStop
    \/ CoordStopDone
    \/ CoordThreadJoin
    \/ CoordSummary
    \/ CoordListFound
    \/ CoordReturn
    \/ CoordSave

Next ==
    \/ crawl
    \/ \E w \in Workers : worker(w)

Spec == Init /\ [][Next]_vars

\* the threads are OS threads: the main thread and every worker thread that
\* can take a step eventually takes one
FairSpec ==
    /\ Spec
    /\ WF_vars(crawl)
    /\ \A w \in Workers : WF_vars(worker(w))


\* ------------------------------------------------- main() and __init__
\* Character strings are sequences of one-character strings.
StartsWith(str, prefix) ==
    Len(str) >= Len(prefix) /\ SubSeq(str, 1, Len(prefix)) = prefix

\* 'http', and the prefix 'http://' the constructor puts in front
Http == <<"h", "t", "t", "p">>
HttpPrefix == Http \o <<":", "/", "/">>
HttpsPrefix == Http \o <<"s", ":", "/", "/">>

\* self.base_url = base_url if base_url.startswith('http')
\*                 else f'http://{base_url}'
InitBaseUrl(url) == IF StartsWith(url, Http) THEN url ELSE HttpPrefix \o url

\* the values of args.url: nothing, http://, https:// or ftp:// in front of
\* e.c, h.c or httpbin.c, followed by nothing, "/" or "/x"
UrlArgs ==
    { pre \o host \o tail :
        pre \in { <<>>, HttpPrefix, HttpsPrefix, <<"f", "t", "p", ":", "/", "/">> },
        host \in { <<"e", ".", "c">>, <<"h", ".", "c">>,
                   Http \o <<"b", "i", "n", ".", "c">> },
        tail \in { <<>>, <<"/">>, <<"/", "x">> } }

\* A line of the wordlist file is a sequence of pieces whose concatenation is
\* the line without its newline; a piece is a blank (" ") or a run of other
\* characters, and a line has at most one such run.
Blank == <<" ">>
FileLineSet ==
    { <<>>, <<Blank>>, <<Blank, Blank>>, << <<"admin">> >>,
      <<Blank, <<"x">>, Blank>>, << <<"backup">>, Blank >> }

\* str.strip(): the leading and the trailing blanks removed
RECURSIVE LStrip(_)
LStrip(line) ==
    IF line # <<>> /\ Head(line) = Blank THEN LStrip(Tail(line)) ELSE line

RECURSIVE RStrip(_)
RStrip(line) ==
    IF line # <<>> /\ line[Len(line)] = Blank
    THEN RStrip(SubSeq(line, 1, Len(line) - 1))
    ELSE line

strip(line) == RStrip(LStrip(line))

\* "if line.strip()": the stripped line is not the empty string
NonBlank(line) == strip(line) # <<>>

\* [line.strip() for line in f if line.strip()]
RECURSIVE ReadWordlist(_)
ReadWordlist(lines) ==
    IF lines = <<>> THEN <<>>
    ELSE IF NonBlank(Head(lines))
         THEN <<strip(Head(lines))[1]>> \o ReadWordlist(Tail(lines))
         ELSE ReadWordlist(Tail(lines))

WordlistFiles ==
    { NoWordlistFile, [given |-> TRUE, readable |-> FALSE, lines |-> <<>>] }
    \cup { [given |-> TRUE, readable |-> TRUE, lines |-> l] :
             l \in UNION { [1..n -> FileLineSet] : n \in 0..MaxLines } }

default_wordlist ==
    << <<"admin">>, <<"backup">>, <<"bin">>, <<"config">>, <<"data">>,
       <<"database">>, <<"doc">>, <<"docs">>, <<"download">>, <<"ftp">>,
       <<"files">>, <<"images">>, <<"img">>, <<"include">>, <<"inc">>,
       <<"js">>, <<"lib">>, <<"log">>, <<"logs">>, <<"media">>, <<"old">>,
       <<"secret">>, <<"secure">>, <<"src">>, <<"static">>, <<"temp">>,
       <<"test">>, <<"tmp">>, <<"upload">>, <<"uploads">>, <<"var">>,
       <<"web">> >>

\* main() entered with its arguments parsed; no crawler exists yet
MainInit ==
    /\ argv_url \in UrlArgs
    /\ wordlist_file \in WordlistFiles
    /\ main_wordlist = NoList
    /\ base_url_text = <<>>
    /\ mpc = "load"
    /\ base_url = <<"">>
    /\ wordlist = <<>>
    /\ max_threads = 1
    /\ output_file = ""
    /\ queue = <<>>
    /\ unfinished_tasks = 0
    /\ found_dirs = <<>>
    /\ checked_urls = {}
    /\ lock = 0
    /\ cpc = "unborn"
    /\ ci = 1
    /\ wpc = [w \in Workers |-> "unstarted"]
    /\ path = [w \in Workers |-> None]
    /\ full_url = [w \in Workers |-> <<>>]
    /\ probes = <<>>
    /\ outcome = <<>>
    /\ dup = {}
    /\ markers = [w \in Workers |-> 0]
    /\ gets = 0
    /\ taken = [w \in Workers |-> 0]
    /\ found_by = <<>>
    /\ out_file = Absent
    /\ report = "none"

crawler == <<base_url, max_threads, output_file, queue, unfinished_tasks,
             shared, lock, cpc, ci, wpc, locals, history, order, output>>

\* "# Load custom wordlist if provided": without -w the local stays None; a
\* readable file gives its stripped non-blank lines
MainLoad ==
    /\ mpc = "load"
    /\ ~wordlist_file.given \/ wordlist_file.readable
    /\ main_wordlist' =
          IF wordlist_file.given
          THEN [none |-> FALSE, list |-> ReadWordlist(wordlist_file.lines)]
          ELSE NoList
    /\ mpc' = "loaded"
    /\ UNCHANGED <<crawler, wordlist, argv_url, wordlist_file, base_url_text>>

\* the file cannot be read: IOError, the message, sys.exit(1)
MainLoadFails ==
    /\ mpc = "load"
    /\ wordlist_file.given /\ ~wordlist_file.readable
    /\ mpc' = "exit"
    /\ UNCHANGED <<crawler, wordlist, argv_url, wordlist_file, main_wordlist,
                   base_url_text>>

\* self.wordlist = wordlist or self.default_wordlist()
InitWordlist(wl) ==
    IF wl.none \/ wl.list = <<>> THEN default_wordlist ELSE wl.list

\* crawler = HiddenFolderCrawler(base_url=args.url, wordlist=wordlist, ...)
MainConstruct ==
    /\ mpc = "loaded"
    /\ base_url_text' = InitBaseUrl(argv_url)
    /\ wordlist' = InitWordlist(main_wordlist)
    /\ mpc' = "constructed"
    /\ UNCHANGED <<crawler, argv_url, wordlist_file, main_wordlist>>

MainNext ==
    \/ MainLoad
    \/ MainLoadFails
    \/ MainConstruct

MainSpec == MainInit /\ [][MainNext]_vars

\* ------------------------------------------------------------- properties
RECURSIVE SumOver(_, _)
SumOver(f, S) ==
    IF S = {} THEN 0
    ELSE LET x == CHOOSE y \in S : TRUE IN f[x] + SumOver(f, S \ {x})

\* calls of check_url so far
TotalProbes == SumOver(probes, DOMAIN probes)

\* termination markers dequeued so far, and put so far
MarkersConsumed == SumOver(markers, Workers)
MarkersInQueue == Cardinality({ i \in 1..Len(queue) : queue[i] = None })
MarkersPut == MarkersInQueue + MarkersConsumed

\* the worker has dequeued a candidate and not yet marked it processed
Processing(w) ==
    wpc[w] \in {"lock_check", "check", "skip", "add", "probe", "lock_append",
                "append", "sleep", "task_done", "crashed"}

\* the worker is past the ledger insertion of the candidate it holds
Marked(w) ==
    wpc[w] \in {"probe", "lock_append", "append", "sleep", "task_done",
                "crashed"}

CandidatesInQueue == { i \in 1..Len(queue) : queue[i] # None }

\* C1: no resolved address is probed more than once: two workers never hold
\* the same address past the ledger insertion, every address has at most one
\* call of check_url, and the calls number at most the distinct addresses.
C1_ProbedAtMostOnce ==
    /\ \A u \in DOMAIN probes : probes[u] <= 1
    /\ \A w1, w2 \in Workers :
         (w1 # w2 /\ Marked(w1) /\ Marked(w2)) => full_url[w1] # full_url[w2]
    /\ TotalProbes <= Cardinality(Resolved(base_url, wordlist))

\* two workers dequeued candidates of one address; one probed it, the other
\* saw it as a duplicate
C1_Witness ==
    \E w1, w2 \in Workers :
       /\ w1 # w2
       /\ full_url[w1] = full_url[w2]
       /\ wpc[w1] = "sleep"
       /\ probes[full_url[w1]] = 1
       /\ wpc[w2] = "get"
       /\ full_url[w2] \in dup

\* C2: drain before terminate: once a termination marker has been put, no
\* candidate is in the queue and no worker holds a candidate it has not
\* marked processed.
C2_DrainBeforeTerminate ==
    MarkersPut > 0 =>
        /\ CandidatesInQueue = {}
        /\ \A w \in Workers : ~Processing(w)

\* a marker is in the queue after candidates were probed and skipped
C2_Witness ==
    /\ MarkersInQueue > 0
    /\ TotalProbes > 0
    /\ dup # {}

\* C3: a worker dequeues at most one marker, a worker that left its loop
\* through the sentinel branch dequeued exactly one, at most max_threads
\* markers are ever put, all max_threads are put before the threads are
\* joined, and when crawl() has returned max_threads markers were consumed,
\* max_threads workers have exited and no marker is left.
C3_OneMarkerPerWorker ==
    /\ \A w \in Workers : markers[w] <= 1
    /\ \A w \in Workers : wpc[w] \in {"sentinel", "exited"} => markers[w] = 1
    /\ MarkersPut <= max_threads
    /\ cpc \in {"thread_join", "done"} => MarkersPut = max_threads
    /\ cpc = "done" =>
         /\ MarkersConsumed = max_threads
         /\ Cardinality({ w \in Workers : wpc[w] = "exited" }) = max_threads
         /\ queue = <<>>

\* crawl() returned with more workers than candidates, one of which never
\* dequeued a candidate
C3_Witness ==
    /\ cpc = "done"
    /\ max_threads > Len(Expand(wordlist))
    /\ \E w \in Workers : wpc[w] = "exited" /\ full_url[w] = <<>>

\* C4: under a fair scheduler crawl() eventually returns, for every pool
\* size and every wordlist.
C4_CrawlReturns == <>(cpc = "done")

\* C5: when crawl() has returned, no candidate is in the queue or held by a
\* worker, every item put was marked processed, and the ledger is the set of
\* the resolved addresses of the expanded wordlist.
C5_NoExitBeforeProcessed ==
    cpc = "done" =>
        /\ CandidatesInQueue = {}
        /\ \A w \in Workers : ~Processing(w)
        /\ unfinished_tasks = 0
        /\ checked_urls = Resolved(base_url, wordlist)

\* crawl() returned after a duplicate was skipped and a 200 was recorded
C5_Witness ==
    /\ cpc = "done"
    /\ dup # {}
    /\ found_dirs # <<>>

\* C6: every element of found_dirs is an address whose probe returned 200.
C6_Only200Recorded ==
    \A i \in 1..Len(found_dirs) :
        /\ probes[found_dirs[i]] > 0
        /\ check_url(outcome[found_dirs[i]]) = [raised |-> FALSE, value |-> 200]

\* an address is recorded while another one was probed with 404 or found
\* unreachable
C6_Witness ==
    /\ found_dirs # <<>>
    /\ \E u \in DOMAIN outcome :
          /\ outcome[u].kind \in {"HTTPError", "URLError"}
          /\ u \notin Range(found_dirs)

\* C7: check_url never raises: every exchange met so far gave a return value,
\* the status code for a completed exchange and the unreachable signal for a
\* failed one, and no worker thread was ended by a probe.
C7_ProbeNeverRaises ==
    /\ \A u \in DOMAIN outcome :
          outcome[u].kind # "none" =>
              /\ ~check_url(outcome[u]).raised
              /\ check_url(outcome[u]).value =
                    IF outcome[u].kind \in {"response", "HTTPError"}
                    THEN outcome[u].code ELSE Unreachable
    /\ \A w \in Workers : wpc[w] # "crashed"

\* the addresses probed with a 200 answer
Answered200 ==
    { u \in DOMAIN outcome : outcome[u] = [kind |-> "response", code |-> 200] }

\* "http://example.com/admin" and "http://example.com/admin/"
UrlAdmin == <<"", "admin">>
UrlAdminSlash == <<"", "admin", "">>

\* base URL http://example.com with the wordlist ["admin"]
ScenarioA == base_url = <<"">> /\ wordlist = << <<"admin">> >>

\* C8 as stated: when crawl() has returned, found_dirs holds exactly the
\* addresses answered 200, each once; and for http://example.com with
\* ["admin"], a 200 for /admin gives ["http://example.com/admin"] and a 404
\* for /admin gives [].
C8_Original ==
    cpc = "done" =>
        /\ Range(found_dirs) = Answered200
        /\ Len(found_dirs) = Cardinality(Answered200)
        /\ (ScenarioA /\ outcome[UrlAdmin].code = 200)
              => found_dirs = <<UrlAdmin>>
        /\ (ScenarioA /\ outcome[UrlAdmin].code = 404)
              => found_dirs = <<>>

\* C8 amended: when crawl() has returned, found_dirs holds exactly the
\* addresses answered 200, each once; for http://example.com with ["admin"]
\* both /admin and /admin/ are probed, so found_dirs is ["…/admin"] when
\* /admin answers 200 and /admin/ does not, and [] when neither answers 200.
C8_CollectorIsThe200s ==
    cpc = "done" =>
        /\ Range(found_dirs) = Answered200
        /\ Len(found_dirs) = Cardinality(Answered200)
        /\ ScenarioA => probes[UrlAdmin] = 1 /\ probes[UrlAdminSlash] = 1
        /\ (ScenarioA /\ outcome[UrlAdmin].code = 200
                      /\ outcome[UrlAdminSlash].code # 200)
              => found_dirs = <<UrlAdmin>>
        /\ (ScenarioA /\ outcome[UrlAdmin].code # 200
                      /\ outcome[UrlAdminSlash].code # 200)
              => found_dirs = <<>>

\* crawl() returned for ["admin"] with 200 for /admin and 404 for /admin/
C8_Witness ==
    /\ cpc = "done"
    /\ ScenarioA
    /\ outcome[UrlAdmin].code = 200
    /\ outcome[UrlAdminSlash].code = 404
    /\ found_dirs = <<UrlAdmin>>

\* the wordlist ["a", "a/"]
ScenarioC == wordlist = << <<"a">>, <<"a", "">> >>

\* C9 as stated: for the wordlist ["a", "a/"] the candidates resolve to one
\* address, so the crawl never issues a second probe and has issued exactly
\* one when it returns.
C9_Original ==
    ScenarioC =>
        /\ TotalProbes <= 1
        /\ cpc = "done" => TotalProbes = 1

\* C9 amended: for the wordlist ["a", "a/"] the candidates a, a/, a/, a//
\* resolve to two addresses, <base>a and <base>a/, and the whole crawl issues
\* exactly two probes, one for each.
C9_TwoProbes ==
    ScenarioC =>
        /\ Resolved(base_url, wordlist) =
              { urljoin(base_url, <<"a">>), urljoin(base_url, <<"a", "">>) }
        /\ urljoin(base_url, <<"a">>) # urljoin(base_url, <<"a", "">>)
        /\ TotalProbes <= 2
        /\ cpc = "done" =>
              /\ TotalProbes = 2
              /\ probes[urljoin(base_url, <<"a">>)] = 1
              /\ probes[urljoin(base_url, <<"a", "">>)] = 1

\* crawl() returned for ["a", "a/"] after skipping a/ and a// as duplicates
C9_Witness ==
    /\ cpc = "done"
    /\ ScenarioC
    /\ dup = { urljoin(base_url, <<"a", "">>) }

\* C10: a worker thread that has ended dequeued a marker last, and exactly
\* one; no thread ended while it held a candidate.
C10_StopsOnlyOnMarker ==
    \A w \in Workers :
        wpc[w] \in {"exited", "crashed"} => path[w] = None /\ markers[w] = 1

\* the worker's next statement reads or writes checked_urls or found_dirs
WorkerAccess(w) == wpc[w] \in {"check", "add", "append"}

\* crawl()'s next statement reads found_dirs: the summary, or save_results
CoordAccess == cpc \in {"summary", "save"}

\* crawl() and save_results() have no "with self.lock": the main thread
\* never holds the lock
LockHeldByMain == FALSE

\* the thread of worker w is not running: never started, or ended
Ended(w) == wpc[w] \in {"unstarted", "exited", "crashed"}

\* C11 as stated: every access to checked_urls and found_dirs, by a worker
\* or by crawl() (summary and save_results), is made holding the lock.
C11_Original ==
    /\ \A w \in Workers : WorkerAccess(w) => lock = w
    /\ CoordAccess => LockHeldByMain

\* C11 amended: every access by a worker is made holding the lock; crawl()
\* reads found_dirs for the summary and in save_results without the lock,
\* but only once every worker thread has ended.
C11_LockedOrAlone ==
    /\ \A w \in Workers : WorkerAccess(w) => lock = w
    /\ CoordAccess => (lock = 0 /\ \A w \in Workers : Ended(w))

\* save_results is about to read a non-empty found_dirs, the lock free
C11_Witness ==
    /\ cpc = "save"
    /\ output_file # ""
    /\ Len(found_dirs) = 2
    /\ lock = 0

\* C12: a worker in check_url, in the sleep or at the dequeue does not hold
\* the lock; the holder is always inside one of the two with blocks.
C12_NoLockAcrossBlocking ==
    \A w \in Workers :
        /\ wpc[w] \in {"get", "probe", "sleep"} => lock # w
        /\ lock = w => wpc[w] \in {"check", "skip", "add", "append"}

\* one worker is in check_url, one sleeps, and a third holds the lock
C12_Witness ==
    \E w1, w2, w3 \in Workers :
        /\ wpc[w1] = "probe"
        /\ wpc[w2] = "sleep"
        /\ lock = w3
        /\ w3 \notin {w1, w2}

\* C13: when crawl() has returned with an output path configured and no
\* write error reported, the file is the header line followed by the
\* addresses of found_dirs in order, for any number of findings.
C13_OutputWritten ==
    (cpc = "done" /\ output_file # "" /\ report # "error")
        => out_file = <<HeaderLine>> \o found_dirs

\* the URL begins with the scheme prefix http:// or https://
HasSchemePrefix(url) ==
    StartsWith(url, HttpPrefix) \/ StartsWith(url, HttpsPrefix)

\* C14: the constructor leaves a base address beginning with http:// or
\* https:// unchanged and puts http:// in front of every other one, so
\* self.base_url always begins with http:// or https://.
C14_SchemeAssumed ==
    mpc = "constructed" =>
        /\ base_url_text = IF HasSchemePrefix(argv_url) THEN argv_url
                           ELSE HttpPrefix \o argv_url
        /\ HasSchemePrefix(base_url_text)

\* C15: when the wordlist file was given and read, the crawler's wordlist is
\* the stripped non-blank lines of the file, so the candidates to enqueue
\* are those lines in bare and trailing-slash form, for every file content.
C15_FileOverridesDefault ==
    (mpc = "constructed" /\ wordlist_file.given /\ wordlist_file.readable) =>
        /\ wordlist = ReadWordlist(wordlist_file.lines)
        /\ Expand(wordlist) = Expand(ReadWordlist(wordlist_file.lines))

\* crawl() is past self.queue.join()
AfterDrain == cpc \in {"stop", "thread_join", "summary", "save", "done"}

\* the worker is between the ledger insertion and the task_done of the
\* candidate it holds: probing, recording or sleeping
Busy(w) == wpc[w] \in {"probe", "lock_append", "append", "sleep", "task_done"}

\* C16: a worker's steps from the probe to the end of the sleep leave the
\* count of unfinished items alone, and its task_done comes when the address
\* was probed and, if answered 200, is in found_dirs; so once queue.join()
\* has returned no worker is probing, recording or sleeping and found_dirs
\* no longer changes.
C16_DrainCoversRecordAndDelay ==
    /\ [](AfterDrain => \A w \in Workers : ~Busy(w))
    /\ [][/\ AfterDrain => found_dirs' = found_dirs
          /\ \A w \in Workers :
               /\ (wpc[w] \in {"probe", "lock_append", "append", "sleep"}
                     /\ wpc'[w] # wpc[w])
                  => unfinished_tasks' = unfinished_tasks
               /\ (wpc[w] = "task_done" /\ wpc'[w] = "get")
                  => /\ unfinished_tasks' = unfinished_tasks - 1
                     /\ probes[full_url[w]] = 1
                     /\ full_url[w] \in Answered200
                          => full_url[w] \in Range(found_dirs)]_vars

\* crawl() is blocked in queue.join() while the last worker sleeps after
\* recording a 200
C16_Witness ==
    /\ cpc = "queue_join"
    /\ queue = <<>>
    /\ unfinished_tasks = 1
    /\ \E w \in Workers : wpc[w] = "sleep" /\ full_url[w] \in Range(found_dirs)

\* C17: a worker whose address is in the ledger at the membership test takes
\* the duplicate branch, and that branch marks the item processed and returns
\* to the dequeue; neither step calls check_url or changes checked_urls or
\* found_dirs, and the delay is not entered.
C17_DuplicateFrame ==
    [][\A w \in Workers :
          /\ (wpc[w] = "check" /\ wpc'[w] # "check"
                /\ full_url[w] \in checked_urls)
             => /\ wpc'[w] = "skip"
                /\ UNCHANGED <<checked_urls, found_dirs, probes, outcome,
                               unfinished_tasks>>
          /\ (wpc[w] = "skip" /\ wpc'[w] # "skip")
             => /\ wpc'[w] = "get"
                /\ unfinished_tasks' = unfinished_tasks - 1
                /\ UNCHANGED <<checked_urls, found_dirs, probes, outcome>>
      ]_vars

\* a single worker probed an address, then skipped its second candidate and
\* is back at the dequeue with every dequeued item marked processed
C17_Witness ==
    /\ max_threads = 1
    /\ wpc[1] = "get"
    /\ full_url[1] \in dup
    /\ TotalProbes = 1
    /\ unfinished_tasks = Len(queue)

IsPrefix(s, t) == Len(s) <= Len(t) /\ SubSeq(t, 1, Len(s)) = s

\* C18: an address being probed, or held by a worker past its probe, or in
\* found_dirs, is in checked_urls; and no step removes an element from
\* checked_urls or from found_dirs.
C18_LedgerCoversAndGrows ==
    /\ [](/\ \A w \in Workers : Busy(w) => full_url[w] \in checked_urls
          /\ Range(found_dirs) \subseteq checked_urls)
    /\ [][/\ checked_urls \subseteq checked_urls'
          /\ IsPrefix(found_dirs, found_dirs')]_vars

\* one address is recorded while a worker probes a second one
C18_Witness ==
    /\ Len(found_dirs) = 1
    /\ \E w \in Workers :
          wpc[w] = "probe" /\ full_url[w] \notin Range(found_dirs)
    /\ Cardinality(checked_urls) = 2

\* the resolved addresses of the candidates in the order they are enqueued
RECURSIVE ResolvedSeq(_, _)
ResolvedSeq(base, cands) ==
    IF cands = <<>> THEN <<>>
    ELSE <<urljoin(base, Head(cands))>> \o ResolvedSeq(base, Tail(cands))

\* seq without the elements outside keep and without repetitions, each
\* address at its first position
RECURSIVE FirstsIn(_, _)
FirstsIn(seq, keep) ==
    IF seq = <<>> THEN <<>>
    ELSE IF Head(seq) \in keep
         THEN <<Head(seq)>> \o FirstsIn(Tail(seq), keep \ {Head(seq)})
         ELSE FirstsIn(Tail(seq), keep)

\* C19: two addresses appended by the same worker are in found_dirs in the
\* order that worker dequeued their candidates; with one worker found_dirs
\* lists the recorded addresses in the order their candidates were enqueued,
\* and when crawl() has returned these are the addresses answered 200.
C19_DiscoveryOrder ==
    /\ Len(found_by) = Len(found_dirs)
    /\ \A i, j \in 1..Len(found_by) :
          (i < j /\ found_by[i][1] = found_by[j][1])
              => found_by[i][2] < found_by[j][2]
    /\ max_threads = 1 =>
          /\ found_dirs = FirstsIn(ResolvedSeq(base_url, Expand(wordlist)),
                                   Range(found_dirs))
          /\ cpc = "done" =>
                found_dirs = FirstsIn(ResolvedSeq(base_url, Expand(wordlist)),
                                      Answered200)

\* with several workers running, one of them recorded two addresses
C19_Witness ==
    /\ max_threads >= 2
    /\ Len(found_dirs) = 2
    /\ found_by[1][1] = found_by[2][1]
    /\ cpc = "done"

\* the worker has dequeued an item, candidate or marker, and has not called
\* task_done for it
Holding(w) == Processing(w) \/ wpc[w] = "sentinel"

\* C20: the count of unfinished items is the number of items in the queue
\* plus the number of items dequeued and not yet marked processed (every
\* item is counted from its put to its single task_done); it is never
\* negative, and it is zero with an empty queue when crawl() has returned.
C20_UnfinishedCount ==
    /\ unfinished_tasks =
          Len(queue) + Cardinality({ w \in Workers : Holding(w) })
    /\ unfinished_tasks >= 0
    /\ cpc = "done" => (unfinished_tasks = 0 /\ queue = <<>>)

\* crawl() returned after its workers marked candidates of both paths and
\* every marker processed
C20_Witness ==
    /\ cpc = "done"
    /\ max_threads >= 2
    /\ gets = Len(Expand(wordlist)) + max_threads
    /\ dup # {}
    /\ TotalProbes >= 1

====
